---- MODULE Spec2Model ----
(***************************************************************************)
(* ClubHub backend: the payment ledger and the membership authority.       *)
(*                                                                         *)
(* The storage layer is LocalDBService (SQLite), the backend get_db_service*)
(* returns by default (config.py: USE_DYNAMODB = False).  The membership   *)
(* authority is modelled for DynamoDBService as well (use_dynamodb): its   *)
(* user, group and member methods do what LocalDBService's do, but for the *)
(* uniqueness of invite codes, which only the SQLite schema declares.  The *)
(* ledger is modelled on LocalDBService.  The request handlers are the     *)
(* FastAPI routes of api/auth.py, api/members.py, api/groups.py and        *)
(* api/payments.py.  A handler is an operator from the stored tables and   *)
(* the request to a Result: the HTTP status code, the tables it leaves and *)
(* the payment ids its response body lists.  In Spec and SpecLedger one    *)
(* action is one request, run from its first storage call to its response. *)
(* In SpecConcurrent, SpecRecord, SpecSettle, SpecDelete and               *)
(* SpecInterrupted one action is one storage call (each commits on its     *)
(* own), and inflight holds the calls the requests under way have still to *)
(* make.                                                                   *)
(*                                                                         *)
(* Amounts and balances are REAL/float in the code; the model uses         *)
(* integers (exactly representable amounts), so rounding is not modelled.  *)
(***************************************************************************)
EXTENDS Integers, Sequences, FiniteSets, TLC

\* ------------------------------------------------------------ bounds ----
\* rows the users, groups and payments tables may hold; ids a bulk request
\* may list
MaxUsers == 3
MaxGroups == 2
MaxPayments == 1
MaxBulk == 2
\* largest magnitude of a stored balance
MaxBalance == 2

UserIds == 1..MaxUsers
GroupIds == 1..MaxGroups
PaymentIds == 1..MaxPayments
\* the amounts of the requests the steps take.  The routes do not validate
\* the amount: RequestAmounts adds the amounts a request can carry besides
\* (zero, negative), over which the claims about one request quantify
Amounts == {1, 2}
RequestAmounts == Amounts \cup {-1, 0}
\* values shortuuid can draw for an invite code
Codes == {"AAAAAA", "BBBBBB"}
\* payment_type, status and role strings a request can carry (one invalid each)
PaymentTypes == {"CHARGE", "CREDIT", "REFUND"}
Statuses == {"PENDING", "PAID", "OVERDUE", "VOID"}
Roles == {"admin", "member", "owner"}
\* which of groupName and inviteCode a signup request carries
SignupKinds == {"groupName", "inviteCode", "neither", "both"}
\* the user_ids lists of a bulk request
UserIdLists == UNION {[1..n -> UserIds] : n \in 0..MaxBulk}

NULL == "NULL"
Today == "today"

VARIABLES users, tokens, groups, group_members, payments, use_dynamodb,
          inflight, token_data

vars == <<users, tokens, groups, group_members, payments, use_dynamodb,
          inflight, token_data>>

\* ------------------------------------------------------------ tables ----
\* the database a handler works on, with the JWTs issued so far
State ==
    [users |-> users, tokens |-> tokens, groups |-> groups,
     group_members |-> group_members, payments |-> payments,
     use_dynamodb |-> use_dynamodb, token_data |-> token_data]

\* what a request leaves behind: status code, tables, ids of created payments
Result(code, db, created) == [code |-> code, db |-> db, created |-> created]

\* raise HTTPException(status_code=code) before any write
Reject(code, db) == Result(code, db, {})

\* get_user_membership found no row
None == [group_id |-> 0, user_id |-> 0, role |-> "none", balance |-> 0]

\* the group_members rows of one user, joined with groups
MembershipRows(db, user_id) ==
    {k \in DOMAIN db.group_members : k[2] = user_id /\ k[1] \in DOMAIN db.groups}

\* a membership lookup that answers with the role claim of the caller's JWT
get_user_membershipFromToken(db, user_id) ==
    IF MembershipRows(db, user_id) = {} THEN None
    ELSE LET k == CHOOSE x \in MembershipRows(db, user_id) :
                    \A y \in MembershipRows(db, user_id) : x[1] <= y[1]
         IN [group_id |-> k[1], user_id |-> k[2],
             role |-> IF user_id \in DOMAIN db.token_data
                      THEN db.token_data[user_id].role
                      ELSE db.group_members[k].role,
             balance |-> db.group_members[k].balance]

\* SELECT gm.* FROM group_members gm JOIN groups g ... WHERE gm.user_id = ?
\* LIMIT 1
get_user_membership(db, user_id) ==
    IF MembershipRows(db, user_id) = {} THEN None
    ELSE LET k == CHOOSE x \in MembershipRows(db, user_id) :
                    \A y \in MembershipRows(db, user_id) : x[1] <= y[1]
         IN [group_id |-> k[1], user_id |-> k[2],
             role |-> db.group_members[k].role,
             balance |-> db.group_members[k].balance]

\* an insert that files the new row under the first user of the users table
add_group_memberFirstUser(db, group_id, user_id, role) ==
    [db EXCEPT !.group_members =
        [k \in DOMAIN db.group_members \cup {<<group_id, 1>>} |->
            IF k = <<group_id, 1>> THEN [role |-> role, balance |-> 0]
            ELSE db.group_members[k]]]

\* an insert that stores every new row with the role member
add_group_memberAsMember(db, group_id, user_id, role) ==
    [db EXCEPT !.group_members =
        [k \in DOMAIN db.group_members \cup {<<group_id, user_id>>} |->
            IF k = <<group_id, user_id>> THEN [role |-> "member", balance |-> 0]
            ELSE db.group_members[k]]]

\* INSERT OR REPLACE INTO group_members, balance defaulted to 0.0
add_group_member(db, group_id, user_id, role) ==
    [db EXCEPT !.group_members =
        [k \in DOMAIN db.group_members \cup {<<group_id, user_id>>} |->
            IF k = <<group_id, user_id>> THEN [role |-> role, balance |-> 0]
            ELSE db.group_members[k]]]

\* SELECT * FROM groups WHERE invite_code = ? (DynamoDB: the query of
\* InviteCodeIndex): the groups that match
get_group_by_invite_code(db, invite_code) ==
    {g \in DOMAIN db.groups : db.groups[g].invite_code = invite_code}

\* INSERT INTO users: the i-th row has user_id i and email i
create_user(db, user_id) == [db EXCEPT !.users = db.users \cup {user_id}]

\* INSERT INTO groups (name, description, created_by, created_at):
\* invite_code is left NULL
create_group(db, group_id) ==
    [db EXCEPT !.groups =
        [g \in DOMAIN db.groups \cup {group_id} |->
            IF g = group_id THEN [invite_code |-> NULL] ELSE db.groups[g]]]

\* invite_code TEXT UNIQUE: the UPDATE of generate_group_invite_code raises
\* when another row holds the code.  DynamoDBService's update_item carries no
\* condition and the groups table no such constraint: it never raises.
InviteCodeTaken(db, group_id, invite_code) ==
    /\ ~db.use_dynamodb
    /\ \E g \in DOMAIN db.groups :
        g # group_id /\ db.groups[g].invite_code = invite_code

\* UPDATE groups SET invite_code = ? WHERE group_id = ?
generate_group_invite_code(db, group_id, invite_code) ==
    [db EXCEPT !.groups[group_id].invite_code = invite_code]

\* create_access_token(token_data): the JWT carries the user, the group and
\* the role the user has when it is issued; get_current_user_id reads user_id
\* from it and nothing else
issue_token(db, user_id, group_id, role) ==
    [db EXCEPT !.tokens = db.tokens \cup {user_id},
               !.token_data =
                  [u \in DOMAIN db.token_data \cup {user_id} |->
                      IF u = user_id THEN [group_id |-> group_id, role |-> role]
                      ELSE db.token_data[u]]]

\* ------------------------------------------------------------ signup ----
\* POST /auth/signup.  email is an email in use or the next unused one; code
\* is the inviteCode presented (join) or the code shortuuid draws (create);
\* first is the group the store returns first (fetchone, items[0]) when more
\* than one group matches the code.
signup(db, email, kind, code, first) ==
    LET user_id == Cardinality(db.users) + 1
        group_id == Cardinality(DOMAIN db.groups) + 1
        db1 == create_user(db, user_id)
    IN
    IF email \in db.users THEN Reject(400, db)
    ELSE IF kind \in {"neither", "both"} THEN Reject(400, db)
    ELSE IF kind = "groupName" THEN
        LET db2 == create_group(db1, group_id) IN
        IF InviteCodeTaken(db2, group_id, code) THEN Result(500, db2, {})
        ELSE LET db3 == generate_group_invite_code(db2, group_id, code)
                 db4 == add_group_member(db3, group_id, user_id, "admin")
             IN Result(200, issue_token(db4, user_id, group_id, "admin"), {})
    ELSE
        IF get_group_by_invite_code(db1, code) = {} THEN Result(404, db1, {})
        ELSE LET matches == get_group_by_invite_code(db1, code)
                 g == IF first \in matches THEN first
                      ELSE CHOOSE x \in matches : TRUE
                 db2 == add_group_member(db1, g, user_id, "member")
             IN Result(200, issue_token(db2, user_id, g, "member"), {})

\* ----------------------------------------------------------- members ----
\* SELECT COUNT(*) FROM group_members WHERE group_id = ? AND role = 'admin'
get_group_admin_count(db, group_id) ==
    Cardinality({k \in DOMAIN db.group_members :
                    k[1] = group_id /\ db.group_members[k].role = "admin"})

\* UPDATE group_members SET role = ? WHERE group_id = ? AND user_id = ?
db_update_member_role(db, group_id, user_id, role) ==
    [db EXCEPT !.group_members =
        [k \in DOMAIN db.group_members |->
            IF k = <<group_id, user_id>>
            THEN [db.group_members[k] EXCEPT !.role = role]
            ELSE db.group_members[k]]]

\* a removal that deletes the member's payment rows with the membership
remove_group_memberCascade(db, group_id, user_id) ==
    [db EXCEPT
        !.group_members =
            [k \in DOMAIN db.group_members \ {<<group_id, user_id>>} |->
                db.group_members[k]],
        !.payments =
            [p \in {q \in DOMAIN db.payments :
                        ~(db.payments[q].group_id = group_id
                          /\ db.payments[q].user_id = user_id)} |->
                db.payments[p]]]

\* DELETE FROM group_members WHERE user_id = ? AND group_id = ?
remove_group_member(db, group_id, user_id) ==
    [db EXCEPT !.group_members =
        [k \in DOMAIN db.group_members \ {<<group_id, user_id>>} |->
            db.group_members[k]]]

\* a self-demotion guard that compares the admin count with < instead of <=
LastAdminDemotionStrict(db, group_id, user_id, member_id, role) ==
    /\ user_id = member_id
    /\ role = "member"
    /\ Cardinality({k \in DOMAIN db.group_members :
          k[1] = group_id /\ db.group_members[k].role = "admin"}) < 1

\* the self-demotion guard of the role route
LastAdminDemotion(db, group_id, user_id, member_id, role) ==
    /\ user_id = member_id
    /\ role = "member"
    /\ get_group_admin_count(db, group_id) <= 1

\* a removal guard that compares the admin count with < instead of <=
LastAdminRemovalStrict(db, group_id, member_membership) ==
    /\ member_membership.role = "admin"
    /\ Cardinality({k \in DOMAIN db.group_members :
          k[1] = group_id /\ db.group_members[k].role = "admin"}) < 1

\* the last-admin guard of the removal route
LastAdminRemoval(db, group_id, member_membership) ==
    /\ member_membership.role = "admin"
    /\ get_group_admin_count(db, group_id) <= 1

\* an admin-only check that asks for a membership and not for the role
AdminRequiredAnyRole(membership) == membership = None

\* the admin-only check at the head of a route
AdminRequired(membership) == membership = None \/ membership.role # "admin"

\* PUT /members/{member_id}/role
update_member_role(db, user_id, member_id, role) ==
    LET membership == get_user_membership(db, user_id)
        group_id == membership.group_id
        member_membership == get_user_membership(db, member_id)
    IN
    IF AdminRequired(membership) THEN Reject(403, db)
    ELSE IF role \notin {"admin", "member"} THEN Reject(400, db)
    ELSE IF member_membership = None \/ member_membership.group_id # group_id
         THEN Reject(404, db)
    ELSE IF LastAdminDemotion(db, group_id, user_id, member_id, role)
         THEN Reject(400, db)
    ELSE Result(200, db_update_member_role(db, group_id, member_id, role), {})

\* a removal route without a permission check
RemovalDeniedNever(membership, user_id, member_id) == FALSE

\* not is_admin and not is_self
RemovalDenied(membership, user_id, member_id) ==
    membership.role # "admin" /\ user_id # member_id

\* DELETE /members/{member_id}
remove_member(db, user_id, member_id) ==
    LET membership == get_user_membership(db, user_id)
        group_id == membership.group_id
        member_membership == get_user_membership(db, member_id)
    IN
    IF membership = None THEN Reject(404, db)
    ELSE IF RemovalDenied(membership, user_id, member_id) THEN Reject(403, db)
    ELSE IF member_membership = None \/ member_membership.group_id # group_id
         THEN Reject(404, db)
    ELSE IF LastAdminRemoval(db, group_id, member_membership) THEN Reject(400, db)
    ELSE Result(200, remove_group_member(db, group_id, member_id), {})

\* POST /groups/invite-code.  The route calls
\* db.generate_group_invite_code(group_id, regenerate=True); the method takes
\* group_id alone, so the call raises TypeError before the UPDATE, and the
\* route's except clause answers 500.
regenerate_invite_code(db, user_id) ==
    LET membership == get_user_membership(db, user_id) IN
    IF AdminRequired(membership) THEN Reject(403, db)
    ELSE Result(500, db, {})

\* ---------------------------------------------------------- payments ----
\* UPDATE group_members SET balance = balance + ?
\* WHERE user_id = ? AND group_id = ?
update_member_balance(db, user_id, group_id, amount) ==
    [db EXCEPT !.group_members =
        [k \in DOMAIN db.group_members |->
            IF k = <<group_id, user_id>>
            THEN [db.group_members[k] EXCEPT
                    !.balance = db.group_members[k].balance + amount]
            ELSE db.group_members[k]]]

\* str(uuid.uuid4()): an id no row of the payments table carries
NewPaymentId(db) ==
    CHOOSE p \in 1..(Cardinality(DOMAIN db.payments) + 1) :
        /\ p \notin DOMAIN db.payments
        /\ \A q \in 1..p : q = p \/ q \in DOMAIN db.payments

\* the payment_data dict the create routes build
PaymentData(payment_id, group_id, user_id, amount, payment_type, status, paid_date) ==
    [payment_id |-> payment_id, group_id |-> group_id, user_id |-> user_id,
     amount |-> amount, payment_type |-> payment_type, status |-> status,
     paid_date |-> paid_date]

\* the sign convention of the earlier revision: charges lower the balance
CreateBalanceDeltaFlipped(payment_type, amount) ==
    IF payment_type = "CHARGE" THEN -amount
    ELSE IF payment_type = "CREDIT" THEN amount
    ELSE 0

\* the balance adjustment create_payment makes after its INSERT
CreateBalanceDelta(payment_type, amount) ==
    IF payment_type = "CHARGE" THEN amount
    ELSE IF payment_type = "CREDIT" THEN -amount
    ELSE 0

\* INSERT INTO payments (...) VALUES (...)
insert_payment(db, payment_data) ==
    LET row == [group_id |-> payment_data.group_id,
                user_id |-> payment_data.user_id,
                amount |-> payment_data.amount,
                payment_type |-> payment_data.payment_type,
                status |-> payment_data.status,
                paid_date |-> payment_data.paid_date]
    IN [db EXCEPT !.payments =
            [p \in DOMAIN db.payments \cup {payment_data.payment_id} |->
                IF p = payment_data.payment_id THEN row ELSE db.payments[p]]]

\* LocalDBService.create_payment: INSERT INTO payments, then the balance
db_create_payment(db, payment_data) ==
    update_member_balance(insert_payment(db, payment_data),
        payment_data.user_id, payment_data.group_id,
        CreateBalanceDelta(payment_data.payment_type, payment_data.amount))

\* UPDATE payments SET <updates> WHERE payment_id = ?
update_payment(db, payment_id, updates) ==
    [db EXCEPT !.payments =
        [p \in DOMAIN db.payments |->
            IF p = payment_id
            THEN [f \in DOMAIN db.payments[p] |->
                    IF f \in DOMAIN updates THEN updates[f]
                    ELSE db.payments[p][f]]
            ELSE db.payments[p]]]

\* a delete_payment that reverses charges and forgets credits
DeleteBalanceDeltaChargeOnly(payment) ==
    IF payment.payment_type = "CHARGE" THEN -payment.amount ELSE 0

\* the balance adjustment delete_payment makes after its DELETE
DeleteBalanceDelta(payment) ==
    IF payment.payment_type = "CHARGE" THEN -payment.amount
    ELSE IF payment.payment_type = "CREDIT" THEN payment.amount
    ELSE 0

\* DELETE FROM payments WHERE payment_id = ?
delete_payment_row(db, payment_id) ==
    [db EXCEPT !.payments =
        [p \in DOMAIN db.payments \ {payment_id} |-> db.payments[p]]]

\* LocalDBService.delete_payment
db_delete_payment(db, payment_id) ==
    IF payment_id \notin DOMAIN db.payments THEN db
    ELSE LET payment == db.payments[payment_id]
         IN update_member_balance(delete_payment_row(db, payment_id),
                payment.user_id, payment.group_id, DeleteBalanceDelta(payment))

\* the status and paid_date POST /payments/ puts in payment_data
SingleCreateStatus(payment_type) == "PENDING"

SingleCreatePaidDate(payment_type) == NULL

\* a validation that takes any payment_type string
InvalidPaymentTypeNever(payment_type) == FALSE

\* request.payment_type not in ["CHARGE", "CREDIT"]
InvalidPaymentType(payment_type) == payment_type \notin {"CHARGE", "CREDIT"}

\* a membership test that takes every user id
NotInGroupNever(target_membership, group_id) == FALSE

\* not target_membership or target_membership["group_id"] != group_id
NotInGroup(target_membership, group_id) ==
    target_membership = None \/ target_membership.group_id # group_id

\* POST /payments/
create_payment(db, user_id, target, amount, payment_type) ==
    LET membership == get_user_membership(db, user_id)
        group_id == membership.group_id
        target_membership == get_user_membership(db, target)
        payment_id == NewPaymentId(db)
    IN
    IF AdminRequired(membership) THEN Reject(403, db)
    ELSE IF InvalidPaymentType(payment_type) THEN Reject(400, db)
    ELSE IF NotInGroup(target_membership, group_id) THEN Reject(404, db)
    ELSE Result(200,
            db_create_payment(db,
                PaymentData(payment_id, group_id, target, amount, payment_type,
                    SingleCreateStatus(payment_type),
                    SingleCreatePaidDate(payment_type))),
            {payment_id})

\* the for loop of the bulk routes: one payment per listed id that is a member
\* of the caller's group, the others skipped
RECURSIVE BulkCreate(_, _, _, _, _, _, _, _)
BulkCreate(db, created, user_ids, group_id, amount, payment_type, status, paid_date) ==
    IF user_ids = <<>> THEN Result(200, db, created)
    ELSE LET target_user_id == Head(user_ids)
             target_membership == get_user_membership(db, target_user_id)
             payment_id == NewPaymentId(db)
         IN IF NotInGroup(target_membership, group_id)
            THEN BulkCreate(db, created, Tail(user_ids), group_id, amount,
                     payment_type, status, paid_date)
            ELSE BulkCreate(
                     db_create_payment(db,
                         PaymentData(payment_id, group_id, target_user_id, amount,
                             payment_type, status, paid_date)),
                     created \cup {payment_id}, Tail(user_ids), group_id, amount,
                     payment_type, status, paid_date)

\* POST /payments/bulk-charge
create_bulk_charge(db, user_id, user_ids, amount) ==
    LET membership == get_user_membership(db, user_id) IN
    IF AdminRequired(membership) THEN Reject(403, db)
    ELSE IF user_ids = <<>> THEN Reject(400, db)
    ELSE BulkCreate(db, {}, user_ids, membership.group_id, amount,
             "CHARGE", "PENDING", NULL)

\* POST /payments/bulk-credit
create_bulk_credit(db, user_id, user_ids, amount) ==
    LET membership == get_user_membership(db, user_id) IN
    IF AdminRequired(membership) THEN Reject(403, db)
    ELSE IF user_ids = <<>> THEN Reject(400, db)
    ELSE BulkCreate(db, {}, user_ids, membership.group_id, amount,
             "CREDIT", "PAID", Today)

\* an update_data that carries the amount besides
StatusUpdateDataWithAmount(payment, status) ==
    [status |-> status, paid_date |-> Today, amount |-> 0]

\* update_data of PUT /payments/{payment_id}/status
StatusUpdateData(payment, status) ==
    IF status = "PAID" THEN [status |-> status, paid_date |-> Today]
    ELSE IF status = "PENDING" /\ payment.paid_date # NULL
         THEN [status |-> status, paid_date |-> NULL]
    ELSE [status |-> status]

\* a status change that forgets the balance when a paid charge is re-opened
StatusBalanceDeltaNoReopen(payment_type, old_status, new_status, amount) ==
    IF payment_type = "CHARGE" /\ old_status = "PENDING" /\ new_status = "PAID"
    THEN -amount
    ELSE 0

\* a status change that takes an overdue charge out of the balance
StatusBalanceDeltaOverdueSettles(payment_type, old_status, new_status, amount) ==
    IF payment_type = "CHARGE" /\ old_status # new_status
    THEN IF old_status = "PENDING" /\ new_status \in {"PAID", "OVERDUE"} THEN -amount
         ELSE IF old_status = "PAID" /\ new_status = "PENDING" THEN amount
         ELSE 0
    ELSE 0

\* a balance adjustment chosen by the new status alone
StatusBalanceDeltaAnyOld(payment_type, old_status, new_status, amount) ==
    IF payment_type = "CHARGE"
    THEN IF new_status = "PAID" THEN -amount
         ELSE IF new_status = "PENDING" /\ old_status # "OVERDUE" THEN amount
         ELSE 0
    ELSE 0

\* the balance adjustment of a status change
StatusBalanceDelta(payment_type, old_status, new_status, amount) ==
    IF payment_type = "CHARGE" /\ old_status # new_status
    THEN IF old_status = "PENDING" /\ new_status = "PAID" THEN -amount
         ELSE IF old_status = "PAID" /\ new_status = "PENDING" THEN amount
         ELSE 0
    ELSE 0

\* a permission check that lets a member mark any payment PAID
StatusPermissionDeniedNoOwner(membership, payment, user_id, status) ==
    /\ membership.role # "admin"
    /\ status # "PAID"

\* the permission check of the status route
StatusPermissionDenied(membership, payment, user_id, status) ==
    /\ membership.role # "admin"
    /\ ~(payment.user_id = user_id /\ status = "PAID")

\* a group check that lets every payment through
OtherGroupPaymentNever(payment, group_id) == FALSE

\* payment["group_id"] != group_id
OtherGroupPayment(payment, group_id) == payment.group_id # group_id

\* a validation that takes any status string
InvalidStatusNever(status) == FALSE

\* request.status not in valid_statuses
InvalidStatus(status) == status \notin {"PENDING", "PAID", "OVERDUE"}

\* PUT /payments/{payment_id}/status
update_payment_status(db, user_id, payment_id, status) ==
    LET membership == get_user_membership(db, user_id)
        group_id == membership.group_id
        payment == db.payments[payment_id]
    IN
    IF membership = None THEN Reject(404, db)
    ELSE IF payment_id \notin DOMAIN db.payments THEN Reject(404, db)
    ELSE IF OtherGroupPayment(payment, group_id) THEN Reject(403, db)
    ELSE IF StatusPermissionDenied(membership, payment, user_id, status)
         THEN Reject(403, db)
    ELSE IF InvalidStatus(status) THEN Reject(400, db)
    ELSE Result(200,
            update_member_balance(
                update_payment(db, payment_id, StatusUpdateData(payment, status)),
                payment.user_id, group_id,
                StatusBalanceDelta(payment.payment_type, payment.status, status,
                    payment.amount)),
            {})

\* DELETE /payments/{payment_id}
delete_payment(db, user_id, payment_id) ==
    LET membership == get_user_membership(db, user_id)
        group_id == membership.group_id
    IN
    IF AdminRequired(membership) THEN Reject(403, db)
    ELSE IF payment_id \notin DOMAIN db.payments THEN Reject(404, db)
    ELSE IF OtherGroupPayment(db.payments[payment_id], group_id)
         THEN Reject(403, db)
    ELSE Result(200, db_delete_payment(db, payment_id), {})

\* ------------------------------------------------------------- reads ----
\* the query parameters left out of a request: user_id_filter = None,
\* status = None
NoUserFilter == 0
NoStatusFilter == ""

\* SELECT * FROM payments WHERE group_id = ? [AND user_id = ?] [AND status = ?]
\* (the ids of the rows; "if user_id:" and "if status:" skip a missing filter)
get_group_payments(db, group_id, user_id, status) ==
    {p \in DOMAIN db.payments :
        /\ db.payments[p].group_id = group_id
        /\ user_id # NoUserFilter => db.payments[p].user_id = user_id
        /\ status # NoStatusFilter => db.payments[p].status = status}

\* a list route that hands a member's filter to the query as it came
EffectiveUserFilterAsGiven(membership, user_id, user_id_filter) == user_id_filter

\* if not is_admin: user_id_filter = user_id
EffectiveUserFilter(membership, user_id, user_id_filter) ==
    IF membership.role # "admin" THEN user_id ELSE user_id_filter

\* GET /payments/ : the status code and the ids of the payments listed
get_payments(db, user_id, user_id_filter, status) ==
    LET membership == get_user_membership(db, user_id) IN
    IF membership = None THEN [code |-> 404, payments |-> {}]
    ELSE [code |-> 200,
          payments |-> get_group_payments(db, membership.group_id,
                           EffectiveUserFilter(membership, user_id, user_id_filter),
                           status)]

\* GET /payments/{payment_id} : the status code and the ids of the payments
\* in the response body
get_payment(db, user_id, payment_id) ==
    LET membership == get_user_membership(db, user_id) IN
    IF membership = None THEN [code |-> 404, payments |-> {}]
    ELSE IF payment_id \notin DOMAIN db.payments THEN [code |-> 404, payments |-> {}]
    ELSE IF db.payments[payment_id].group_id # membership.group_id
         THEN [code |-> 403, payments |-> {}]
    ELSE IF membership.role # "admin" /\ db.payments[payment_id].user_id # user_id
         THEN [code |-> 403, payments |-> {}]
    ELSE [code |-> 200, payments |-> {payment_id}]

\* statistics that count what credits settle as owed
StatisticsOwedWithCredits(payment) ==
    IF payment.status \in {"PENDING", "OVERDUE"} THEN payment.amount ELSE 0

\* what one row adds to total_money_owed in the loop of the statistics route
StatisticsOwed(payment) ==
    IF payment.payment_type = "CHARGE" /\ payment.status \in {"PENDING", "OVERDUE"}
    THEN payment.amount ELSE 0

\* what one row adds to total_money_collected
StatisticsCollected(payment) ==
    IF payment.payment_type = "CHARGE" /\ payment.status = "PAID"
    THEN payment.amount ELSE 0

\* the for loop of the statistics route over all_payments
RECURSIVE StatisticsLoop(_, _)
StatisticsLoop(db, all_payments) ==
    IF all_payments = {} THEN [owed |-> 0, collected |-> 0]
    ELSE LET p == CHOOSE x \in all_payments : TRUE
             rest == StatisticsLoop(db, all_payments \ {p})
         IN [owed |-> rest.owed + StatisticsOwed(db.payments[p]),
             collected |-> rest.collected + StatisticsCollected(db.payments[p])]

\* GET /payments/statistics
get_payment_statistics(db, user_id) ==
    LET membership == get_user_membership(db, user_id)
        all_payments == get_group_payments(db, membership.group_id,
                            NoUserFilter, NoStatusFilter)
        totals == StatisticsLoop(db, all_payments)
    IN
    IF AdminRequired(membership)
    THEN [code |-> 403, total_money_owed |-> 0, total_money_collected |-> 0,
          total_payments_count |-> 0]
    ELSE [code |-> 200, total_money_owed |-> totals.owed,
          total_money_collected |-> totals.collected,
          total_payments_count |-> Cardinality(all_payments)]

\* ------------------------------------------------------------- state ----
\* the database after construction: _init_db creates the tables, empty
EmptyDB ==
    [users |-> {}, tokens |-> {},
     groups |-> [g \in {} |-> [invite_code |-> NULL]],
     group_members |-> [k \in {} |-> None],
     payments |-> [p \in {} |-> None],
     use_dynamodb |-> FALSE,
     token_data |-> [u \in {} |-> [group_id |-> 0, role |-> "none"]]]

\* two clubs: user 1 founds the first and user 2 joins it with its invite
\* code, user 3 founds the second
TwoClubsDB ==
    LET db1 == signup(EmptyDB, 1, "groupName", "AAAAAA", 1).db
        db2 == signup(db1, 2, "inviteCode", "AAAAAA", 1).db
    IN signup(db2, 3, "groupName", "BBBBBB", 1).db

StartFrom(db) ==
    /\ users = db.users
    /\ tokens = db.tokens
    /\ groups = db.groups
    /\ group_members = db.group_members
    /\ payments = db.payments
    /\ use_dynamodb = db.use_dynamodb
    /\ token_data = db.token_data
    /\ inflight = {}

\* settings.USE_DYNAMODB picks the backend get_db_service constructs
Init == \E b \in BOOLEAN : StartFrom([EmptyDB EXCEPT !.use_dynamodb = b])

LedgerInit == StartFrom(TwoClubsDB)

\* the tables one committed storage call leaves
Store(db) ==
    /\ users' = db.users
    /\ tokens' = db.tokens
    /\ groups' = db.groups
    /\ group_members' = db.group_members
    /\ payments' = db.payments
    /\ use_dynamodb' = db.use_dynamodb
    /\ token_data' = db.token_data

\* the tables one committed storage call leaves, within the bounds of the
\* model
Commit(db) ==
    /\ Cardinality(db.users) <= MaxUsers
    /\ Cardinality(DOMAIN db.groups) <= MaxGroups
    /\ Cardinality(DOMAIN db.payments) <= MaxPayments
    /\ \A k \in DOMAIN db.group_members :
          db.group_members[k].balance \in -MaxBalance..MaxBalance
    /\ Store(db)

\* a request served from its first storage call to its last with no other
\* request in between
Apply(r) == Commit(r.db) /\ inflight' = inflight

SignupStep ==
    \E email \in 1..(Cardinality(users) + 1), kind \in SignupKinds, code \in Codes,
       first \in GroupIds :
        Apply(signup(State, email, kind, code, first))

UpdateMemberRoleStep ==
    \E user_id \in tokens, member_id \in UserIds, role \in Roles :
        Apply(update_member_role(State, user_id, member_id, role))

RemoveMemberStep ==
    \E user_id \in tokens, member_id \in UserIds :
        Apply(remove_member(State, user_id, member_id))

RegenerateInviteCodeStep ==
    \E user_id \in tokens : Apply(regenerate_invite_code(State, user_id))

CreatePaymentStep ==
    \E user_id \in tokens, target \in UserIds, amount \in Amounts,
       payment_type \in PaymentTypes :
        Apply(create_payment(State, user_id, target, amount, payment_type))

CreateBulkChargeStep ==
    \E user_id \in tokens, user_ids \in UserIdLists, amount \in Amounts :
        Apply(create_bulk_charge(State, user_id, user_ids, amount))

CreateBulkCreditStep ==
    \E user_id \in tokens, user_ids \in UserIdLists, amount \in Amounts :
        Apply(create_bulk_credit(State, user_id, user_ids, amount))

UpdatePaymentStatusStep ==
    \E user_id \in tokens, payment_id \in PaymentIds, status \in Statuses :
        Apply(update_payment_status(State, user_id, payment_id, status))

DeletePaymentStep ==
    \E user_id \in tokens, payment_id \in PaymentIds :
        Apply(delete_payment(State, user_id, payment_id))

\* the membership authority, from the empty database
Next ==
    \/ SignupStep
    \/ UpdateMemberRoleStep
    \/ RemoveMemberStep
    \/ RegenerateInviteCodeStep

Spec == Init /\ [][Next]_vars

\* the payment ledger of two clubs
LedgerNext ==
    \/ CreatePaymentStep
    \/ CreateBulkChargeStep
    \/ CreateBulkCreditStep
    \/ UpdatePaymentStatusStep
    \/ DeletePaymentStep

SpecLedger == LedgerInit /\ [][LedgerNext]_vars

\* ------------------------------------------------- concurrent requests ----
\* Every storage call opens its connection, runs one statement and commits
\* (LocalDBService._conn), or is one DynamoDB call; a route that reads and then
\* writes, or writes twice, makes several such calls, and the Lambda handler
\* (Mangum) serves concurrent requests from separate processes over the same
\* tables.  A request is in flight from the call that passed its guards to its
\* last write: inflight holds the write each such request has still to make.
MaxRequests == 2

Request(op, group_id, user_id, role, payment_id, status, amount, balance) ==
    [op |-> op, group_id |-> group_id, user_id |-> user_id, role |-> role,
     payment_id |-> payment_id, status |-> status, amount |-> amount,
     balance |-> balance]

\* one club with two admins (1 and 2) and a member (3) who owes one charge
TwoAdminsDB ==
    LET db1 == signup(EmptyDB, 1, "groupName", "AAAAAA", 1).db
        db2 == signup(db1, 2, "inviteCode", "AAAAAA", 1).db
        db3 == signup(db2, 3, "inviteCode", "AAAAAA", 1).db
        db4 == update_member_role(db3, 1, 2, "admin").db
    IN create_payment(db4, 1, 3, 1, "CHARGE").db

ConcurrentInit ==
    \E b \in BOOLEAN : StartFrom([TwoAdminsDB EXCEPT !.use_dynamodb = b])

\* PUT /members/{member_id}/role up to the admin-count guard: the memberships
\* and the admin count are read and every guard passes; the UPDATE is still to
\* be made
UpdateMemberRoleCheck ==
    \E user_id \in tokens, member_id \in UserIds, role \in Roles :
        /\ update_member_role(State, user_id, member_id, role).code = 200
        /\ Cardinality(inflight) < MaxRequests
        /\ inflight' = inflight \cup
              {Request("update_member_role",
                       get_user_membership(State, user_id).group_id,
                       member_id, role, 0, "", 0, 0)}
        /\ UNCHANGED <<users, tokens, groups, group_members, payments,
                       use_dynamodb, token_data>>

\* db.update_member_role(group_id, member_id, request.role)
UpdateMemberRoleWrite ==
    \E req \in inflight :
        /\ req.op = "update_member_role"
        /\ Commit(db_update_member_role(State, req.group_id, req.user_id,
                                        req.role))
        /\ inflight' = inflight \ {req}

\* DELETE /members/{member_id} up to the last-admin guard
RemoveMemberCheck ==
    \E user_id \in tokens, member_id \in UserIds :
        /\ remove_member(State, user_id, member_id).code = 200
        /\ Cardinality(inflight) < MaxRequests
        /\ inflight' = inflight \cup
              {Request("remove_group_member",
                       get_user_membership(State, user_id).group_id,
                       member_id, "", 0, "", 0, 0)}
        /\ UNCHANGED <<users, tokens, groups, group_members, payments,
                       use_dynamodb, token_data>>

\* db.remove_group_member(group_id, member_id)
RemoveMemberWrite ==
    \E req \in inflight :
        /\ req.op = "remove_group_member"
        /\ Commit(remove_group_member(State, req.group_id, req.user_id))
        /\ inflight' = inflight \ {req}

\* PUT /payments/{payment_id}/status up to db.update_payment: the guards pass
\* and the status is written; where the route goes on to adjust the balance,
\* that call is still to be made
UpdatePaymentStatusWrite ==
    \E user_id \in tokens, payment_id \in PaymentIds, status \in Statuses :
        /\ update_payment_status(State, user_id, payment_id, status).code = 200
        /\ LET payment == payments[payment_id]
               delta == StatusBalanceDelta(payment.payment_type, payment.status,
                                           status, payment.amount)
           IN /\ Commit(update_payment(State, payment_id,
                                       StatusUpdateData(payment, status)))
              /\ IF delta = 0 THEN inflight' = inflight
                 ELSE /\ Cardinality(inflight) < MaxRequests
                      /\ inflight' = inflight \cup
                            {Request("update_member_balance", payment.group_id,
                                     payment.user_id, "", payment_id, status,
                                     delta,
                                     get_user_membership(State,
                                         payment.user_id).balance)}

\* db.update_member_balance(payment["user_id"], group_id, +/-amount)
UpdateMemberBalanceWrite ==
    \E req \in inflight :
        /\ req.op = "update_member_balance"
        /\ Commit(update_member_balance(State, req.user_id, req.group_id,
                                        req.amount))
        /\ inflight' = inflight \ {req}

ConcurrentNext ==
    \/ UpdateMemberRoleCheck
    \/ UpdateMemberRoleWrite
    \/ RemoveMemberCheck
    \/ RemoveMemberWrite
    \/ UpdatePaymentStatusWrite
    \/ UpdateMemberBalanceWrite

SpecConcurrent == ConcurrentInit /\ [][ConcurrentNext]_vars

\* ------------------------------------------ concurrent recordPayment ----
\* payments the table may hold while concurrent POST /payments/ are served
MaxRecords == 2

\* one club: its admin (1) and a member (2), no payment recorded
AdminAndMemberDB ==
    LET db1 == signup(EmptyDB, 1, "groupName", "AAAAAA", 1).db
    IN signup(db1, 2, "inviteCode", "AAAAAA", 1).db

RecordInit ==
    \E b \in BOOLEAN : StartFrom([AdminAndMemberDB EXCEPT !.use_dynamodb = b])

\* a balance update that writes back the balance read earlier plus the amount
IncrementedBalanceFromRead(stored, read, amount) == read + amount

\* UPDATE group_members SET balance = balance + ? (SET balance = balance +
\* :amount on DynamoDB): one statement adds to the balance stored when it
\* runs, whatever balance the tables held when the request began
IncrementedBalance(stored, read, amount) == stored + amount

\* POST /payments/ up to the INSERT of db.create_payment: the guards pass and
\* the row is written under a fresh uuid; the balance update is still to be
\* made
CreatePaymentInsert ==
    \E user_id \in tokens, target \in UserIds, amount \in Amounts,
       payment_type \in PaymentTypes :
        LET group_id == get_user_membership(State, user_id).group_id
            payment_id == NewPaymentId(State)
        IN /\ create_payment(State, user_id, target, amount, payment_type).code
                = 200
           /\ Cardinality(DOMAIN payments) < MaxRecords
           /\ Store(insert_payment(State,
                    PaymentData(payment_id, group_id, target, amount,
                        payment_type, SingleCreateStatus(payment_type),
                        SingleCreatePaidDate(payment_type))))
           /\ inflight' = inflight \cup
                 {Request("update_member_balance", group_id, target, "",
                          payment_id, "",
                          CreateBalanceDelta(payment_type, amount),
                          get_user_membership(State, target).balance)}

\* self.update_member_balance(user_id, group_id, +/-amount) of
\* db.create_payment
CreatePaymentBalance ==
    \E req \in inflight :
        LET stored == get_user_membership(State, req.user_id).balance IN
        /\ req.op = "update_member_balance"
        /\ Store(update_member_balance(State, req.user_id, req.group_id,
                 IncrementedBalance(stored, req.balance, req.amount) - stored))
        /\ inflight' = inflight \ {req}

RecordNext ==
    \/ CreatePaymentInsert
    \/ CreatePaymentBalance

SpecRecord == RecordInit /\ [][RecordNext]_vars

\* ------------------------------------------- concurrent status flips ----
\* a request on one payment that has passed the route's guards: the caller,
\* the row db.get_payment_by_id returned to it, the status it asks for and
\* the storage call it makes next
Call(op, user_id, payment_id, payment, status) ==
    [op |-> op, user_id |-> user_id, payment_id |-> payment_id,
     payment |-> payment, status |-> status]

\* the club of TwoAdminsDB, whose member (3) owes two charges, of 1 and of 2
TwoChargesDB == create_payment(TwoAdminsDB, 2, 3, 2, "CHARGE").db

SettleInit ==
    \E b \in BOOLEAN : StartFrom([TwoChargesDB EXCEPT !.use_dynamodb = b])

\* the status the concurrent requests ask for: they mark a charge PAID
SettleStatuses == {"PAID"}

\* PUT /payments/{payment_id}/status up to the validation: membership and
\* payment are read and every guard passes
UpdatePaymentStatusRead ==
    \E user_id \in tokens, payment_id \in DOMAIN payments,
       status \in SettleStatuses :
        /\ update_payment_status(State, user_id, payment_id, status).code = 200
        /\ Cardinality(inflight) < MaxRequests
        /\ inflight' = inflight \cup
              {Call("update_payment", user_id, payment_id,
                    payments[payment_id], status)}
        /\ UNCHANGED <<users, tokens, groups, group_members, payments,
                       use_dynamodb, token_data>>

\* the balance adjustment of a request, from the row the request read
CallDelta(req) ==
    StatusBalanceDelta(req.payment.payment_type, req.payment.status,
                       req.status, req.payment.amount)

\* db.update_payment(payment_id, update_data), update_data built from the
\* row the request read
UpdatePaymentStatusUpdate ==
    \E req \in inflight :
        /\ req.op = "update_payment"
        /\ Store(update_payment(State, req.payment_id,
                                StatusUpdateData(req.payment, req.status)))
        /\ inflight' =
              IF CallDelta(req) = 0 THEN inflight \ {req}
              ELSE (inflight \ {req}) \cup
                   {[req EXCEPT !.op = "update_member_balance"]}

\* db.update_member_balance(payment_user_id, group_id, +/-amount), chosen by
\* the old_status the request read
UpdatePaymentStatusBalance ==
    \E req \in inflight :
        /\ req.op = "update_member_balance"
        /\ Store(update_member_balance(State, req.payment.user_id,
                                       req.payment.group_id, CallDelta(req)))
        /\ inflight' = inflight \ {req}

SettleNext ==
    \/ UpdatePaymentStatusRead
    \/ UpdatePaymentStatusUpdate
    \/ UpdatePaymentStatusBalance

SpecSettle == SettleInit /\ [][SettleNext]_vars

\* ---------------------------------------------- concurrent deletions ----
\* DELETE /payments/{payment_id} up to db.delete_payment: the caller is an
\* admin and the payment is one of the caller's group.  A caller has one
\* deletion of a payment in flight at a time.
DeletePaymentRoute ==
    \E user_id \in tokens, payment_id \in DOMAIN payments :
        /\ delete_payment(State, user_id, payment_id).code = 200
        /\ Cardinality(inflight) < MaxRequests
        /\ \A req \in inflight :
              req.user_id # user_id \/ req.payment_id # payment_id
        /\ inflight' = inflight \cup
              {Call("delete_payment", user_id, payment_id,
                    payments[payment_id], "")}
        /\ UNCHANGED <<users, tokens, groups, group_members, payments,
                       use_dynamodb, token_data>>

\* payment = self.get_payment(payment_id) of db.delete_payment: with no row
\* the method returns; with a row LocalDBService deletes it next and adjusts
\* the balance after, DynamoDBService adjusts the balance next and deletes
\* the item after
DeletePaymentGet ==
    \E req \in inflight :
        /\ req.op = "delete_payment"
        /\ inflight' =
              IF req.payment_id \notin DOMAIN payments THEN inflight \ {req}
              ELSE (inflight \ {req}) \cup
                   {[req EXCEPT
                       !.op = IF use_dynamodb THEN "update_member_balance"
                              ELSE "DELETE",
                       !.payment = payments[req.payment_id]]}
        /\ UNCHANGED <<users, tokens, groups, group_members, payments,
                       use_dynamodb, token_data>>

\* DELETE FROM payments WHERE payment_id = ? / delete_item
DeletePaymentRow ==
    \E req \in inflight :
        /\ req.op = "DELETE"
        /\ Store(delete_payment_row(State, req.payment_id))
        /\ inflight' =
              IF use_dynamodb THEN inflight \ {req}
              ELSE (inflight \ {req}) \cup
                   {[req EXCEPT !.op = "update_member_balance"]}

\* self.update_member_balance(user_id, group_id, -/+amount) of
\* db.delete_payment, from the row the method read
DeletePaymentBalance ==
    \E req \in inflight :
        /\ req.op = "update_member_balance"
        /\ Store(update_member_balance(State, req.payment.user_id,
                     req.payment.group_id, DeleteBalanceDelta(req.payment)))
        /\ inflight' =
              IF use_dynamodb
              THEN (inflight \ {req}) \cup {[req EXCEPT !.op = "DELETE"]}
              ELSE inflight \ {req}

DeleteNext ==
    \/ DeletePaymentRoute
    \/ DeletePaymentGet
    \/ DeletePaymentRow
    \/ DeletePaymentBalance

SpecDelete == SettleInit /\ [][DeleteNext]_vars

\* ------------------------------------------------ interrupted requests ----
\* A request ends between two of its storage calls: the process fails or is
\* stopped at its time limit, or the later call raises and the route's except
\* clause answers 500.  The calls made so far have committed, and no handler
\* undoes them.
RequestStops ==
    \E req \in inflight :
        /\ inflight' = inflight \ {req}
        /\ UNCHANGED <<users, tokens, groups, group_members, payments,
                       use_dynamodb, token_data>>

InterruptedNext ==
    \/ CreatePaymentInsert
    \/ CreatePaymentBalance
    \/ RequestStops

SpecInterrupted == RecordInit /\ [][InterruptedNext]_vars

\* ============================================================ claims ====
\* the sum of the amounts of the payments in ids
RECURSIVE SumAmounts(_, _)
SumAmounts(pays, ids) ==
    IF ids = {} THEN 0
    ELSE LET p == CHOOSE x \in ids : TRUE
         IN pays[p].amount + SumAmounts(pays, ids \ {p})

\* the payments of member k = <<group_id, user_id>> of one kind, in statuses
PaymentsOf(pays, k, payment_type, statuses) ==
    {p \in DOMAIN pays :
        /\ pays[p].group_id = k[1]
        /\ pays[p].user_id = k[2]
        /\ pays[p].payment_type = payment_type
        /\ pays[p].status \in statuses}

\* the balance of member k recomputed from the payment rows
Recomputed(pays, k) ==
    SumAmounts(pays, PaymentsOf(pays, k, "CHARGE", {"PENDING", "OVERDUE"}))
    - SumAmounts(pays, PaymentsOf(pays, k, "CREDIT", {"PENDING", "PAID", "OVERDUE"}))

\* callers that hold a token and whose stored role is admin / is not admin
Admins == {u \in tokens : \E k \in DOMAIN group_members :
                k[2] = u /\ group_members[k].role = "admin"}

NonAdmins == tokens \ Admins

\* C1: after every request the stored balance of every member equals the sum
\* of the member's outstanding (PENDING or OVERDUE) charges minus the sum of
\* the member's credits.
C1_LedgerInvariant ==
    \A k \in DOMAIN group_members :
        group_members[k].balance = Recomputed(payments, k)

\* C2: marking a PENDING or an OVERDUE charge PAID lowers the owner's balance
\* by exactly the amount of the charge.
C2_SettleLowersBalance ==
    \A user_id \in tokens, p \in DOMAIN payments :
        LET payment == payments[p]
            k == <<payment.group_id, payment.user_id>>
            r == update_payment_status(State, user_id, p, "PAID")
        IN (/\ payment.payment_type = "CHARGE"
            /\ payment.status \in {"PENDING", "OVERDUE"}
            /\ k \in DOMAIN group_members
            /\ r.code = 200)
           => r.db.group_members[k].balance
                = group_members[k].balance - payment.amount

\* what a payment contributes to its owner's balance, negated
InverseContribution(payment) ==
    IF payment.payment_type = "CREDIT" THEN payment.amount
    ELSE IF payment.status = "PAID" THEN 0
    ELSE -payment.amount

\* C3: deleting a payment adds to the owner's balance the inverse of what the
\* payment contributes (0 for a PAID charge, -amount for an outstanding
\* charge, +amount for a credit) and removes the row.
C3_DeleteReverses ==
    \A user_id \in tokens, p \in DOMAIN payments :
        LET payment == payments[p]
            k == <<payment.group_id, payment.user_id>>
            r == delete_payment(State, user_id, p)
        IN (r.code = 200 /\ k \in DOMAIN group_members)
           => /\ p \notin DOMAIN r.db.payments
              /\ r.db.group_members[k].balance
                   = group_members[k].balance + InverseContribution(payment)

\* the results of the requests that record exactly one payment for target
RecordOne(user_id, target, amount, payment_type) ==
    {create_payment(State, user_id, target, amount, payment_type)}
    \cup (IF payment_type = "CHARGE"
          THEN {create_bulk_charge(State, user_id, <<target>>, amount)}
          ELSE {create_bulk_credit(State, user_id, <<target>>, amount)})

AdminsOf(gm, g) == {k \in DOMAIN gm : k[1] = g /\ gm[k].role = "admin"}

MembersOf(gm, g) == {k \in DOMAIN gm : k[1] = g}

\* C5: every group that has a member has a member whose role is admin.
C5_AdminFloor ==
    \A g \in DOMAIN groups :
        MembersOf(group_members, g) # {} => AdminsOf(group_members, g) # {}

\* C5 witness: a member has been removed, and a group of two or more has one
\* admin who is not its founder (the founder has the lowest user_id of a
\* group: a promotion and a demotion have happened).
C5_Witness ==
    /\ \E u \in tokens : MembershipRows(State, u) = {}
    /\ \E g \in DOMAIN groups :
        /\ Cardinality(MembersOf(group_members, g)) >= 2
        /\ Cardinality(AdminsOf(group_members, g)) = 1
        /\ \E a \in AdminsOf(group_members, g), k \in MembersOf(group_members, g) :
              k[2] < a[2]

\* C6: where A is the only admin of a group, A's demotion of A and every
\* removal of A are rejected and change nothing; where the group has a
\* second admin, A's demotion of A and A's removal of A succeed.
C6_LastAdminGuard ==
    \A k \in DOMAIN group_members :
        group_members[k].role = "admin" =>
            LET A == k[2]
                demote == update_member_role(State, A, A, "member")
                leave == remove_member(State, A, A)
            IN IF Cardinality(AdminsOf(group_members, k[1])) = 1
               THEN /\ demote.code # 200 /\ demote.db = State
                    /\ \A user_id \in tokens :
                        LET r == remove_member(State, user_id, A)
                        IN r.code # 200 /\ r.db = State
               ELSE /\ demote.code = 200
                    /\ demote.db.group_members[k].role = "member"
                    /\ leave.code = 200
                    /\ k \notin DOMAIN leave.db.group_members

\* C6 witness: a group whose founder A was its only admin has got a second
\* admin B, and A's demotion and removal now succeed.
C6_Witness ==
    \E k \in DOMAIN group_members :
        /\ Cardinality(AdminsOf(group_members, k[1])) = 2
        /\ group_members[k].role = "admin"
        /\ update_member_role(State, k[2], k[2], "member").code = 200
        /\ remove_member(State, k[2], k[2]).code = 200

\* a request was refused with 403 and wrote nothing
Forbidden(r) == r.code = 403 /\ r.db = State /\ r.created = {}

\* C7: createPayment, bulkCharge, bulkCredit, deletePayment and
\* updateMemberRole by a caller whose stored role is not admin are refused
\* with 403 and leave every payment row, balance and role as they were.
C7_AdminOnly ==
    \A user_id \in NonAdmins :
        /\ \A target \in UserIds, amount \in RequestAmounts, payment_type \in PaymentTypes :
            Forbidden(create_payment(State, user_id, target, amount, payment_type))
        /\ \A user_ids \in UserIdLists, amount \in RequestAmounts :
            /\ Forbidden(create_bulk_charge(State, user_id, user_ids, amount))
            /\ Forbidden(create_bulk_credit(State, user_id, user_ids, amount))
        /\ \A p \in PaymentIds : Forbidden(delete_payment(State, user_id, p))
        /\ \A member_id \in UserIds, role \in Roles :
            Forbidden(update_member_role(State, user_id, member_id, role))

\* C7 witness: a member who owes a charge asks to delete it and to become
\* admin, and is refused.
C7_Witness ==
    \E user_id \in NonAdmins, p \in DOMAIN payments :
        /\ payments[p].user_id = user_id
        /\ payments[p].status = "PENDING"
        /\ delete_payment(State, user_id, p).code = 403
        /\ update_member_role(State, user_id, user_id, "admin").code = 403

\* the callers whose stored role is member
Members == {u \in tokens : \E k \in DOMAIN group_members :
                k[2] = u /\ group_members[k].role = "member"}

\* C8: a member's status update succeeds exactly when the payment is the
\* member's own and the new status is PAID; any other is refused with 403 and
\* leaves the payment and every balance as they were.
C8_MemberStatusUpdate ==
    \A user_id \in Members, p \in DOMAIN payments, status \in Statuses :
        LET r == update_payment_status(State, user_id, p, status)
            allowed == payments[p].user_id = user_id /\ status = "PAID"
        IN /\ r.code = 200 <=> allowed
           /\ ~allowed => Forbidden(r)

\* C8 witness: a member with a pending charge may mark it PAID, and may not
\* mark it OVERDUE.
C8_Witness ==
    \E user_id \in Members, p \in DOMAIN payments :
        /\ payments[p].user_id = user_id
        /\ payments[p].status = "PENDING"
        /\ payments[p].payment_type = "CHARGE"
        /\ update_payment_status(State, user_id, p, "PAID").db.payments[p].status
             = "PAID"
        /\ update_payment_status(State, user_id, p, "OVERDUE").code = 403

\* a payment row as recordPayment is to create it
CreatedAsSpecified(row) ==
    IF row.payment_type = "CHARGE" THEN row.status = "PENDING"
    ELSE row.status = "PAID" /\ row.paid_date # NULL

\* C9: createPayment, bulkCharge and bulkCredit create a charge with status
\* PENDING and a credit with status PAID and a paid_date.
C9_CreatedStatus ==
    \A user_id \in tokens, target \in UserIds, amount \in RequestAmounts :
        /\ \A payment_type \in {"CHARGE", "CREDIT"} :
            LET r == create_payment(State, user_id, target, amount, payment_type)
            IN \A p \in r.created : CreatedAsSpecified(r.db.payments[p])
        /\ LET r == create_bulk_charge(State, user_id, <<target>>, amount)
           IN \A p \in r.created : CreatedAsSpecified(r.db.payments[p])
        /\ LET r == create_bulk_credit(State, user_id, <<target>>, amount)
           IN \A p \in r.created : CreatedAsSpecified(r.db.payments[p])

\* how often user u is listed in user_ids
Occurrences(user_ids, u) == Cardinality({i \in DOMAIN user_ids : user_ids[i] = u})

\* the member table gm with amount added to the balance of row k, n times
WithBalance(gm, g, n, amount) ==
    [k \in DOMAIN gm |->
        IF k[1] = g THEN [gm[k] EXCEPT !.balance = gm[k].balance + n[k[2]] * amount]
        ELSE gm[k]]

\* the group the caller's member row names
GroupOf(u) == (CHOOSE k \in DOMAIN group_members : k[2] = u)[1]

AdminCharges(statuses) ==
    {x \in Admins \X DOMAIN payments :
        /\ payments[x[2]].group_id = GroupOf(x[1])
        /\ payments[x[2]].payment_type = "CHARGE"
        /\ payments[x[2]].status \in statuses}

\* gm with amount added to the balance of the owner of payment
OwnerBalancePlus(gm, payment, amount) ==
    [k \in DOMAIN gm |->
        IF k = <<payment.group_id, payment.user_id>>
        THEN [gm[k] EXCEPT !.balance = gm[k].balance + amount]
        ELSE gm[k]]

C12_OverdueKeepsBalance ==
    \A x \in AdminCharges({"PENDING"}) :
        LET r == update_payment_status(State, x[1], x[2], "OVERDUE")
        IN /\ r.code = 200
           /\ r.db.payments[x[2]].status = "OVERDUE"
           /\ r.db.group_members = group_members

\* C12 witness: a pending charge that its owner's balance carries is marked
\* OVERDUE and the balance still carries it.
C12_Witness ==
    \E x \in AdminCharges({"PENDING"}) :
        LET payment == payments[x[2]]
            k == <<payment.group_id, payment.user_id>>
            r == update_payment_status(State, x[1], x[2], "OVERDUE")
        IN /\ group_members[k].balance = payment.amount
           /\ r.db.payments[x[2]].status = "OVERDUE"
           /\ r.db.group_members[k].balance = payment.amount

\* the transitions of the status table
TableTransitions ==
    {<<"PENDING", "PAID">>, <<"OVERDUE", "PAID">>, <<"PAID", "PENDING">>,
     <<"PENDING", "OVERDUE">>}

\* C13: a status update of a charge from its status to another valid status,
\* where the pair is not a transition of the table (PAID to OVERDUE, OVERDUE
\* to PENDING), fails and changes neither the payment nor any balance.
C13_OffTableRejected ==
    \A x \in AdminCharges({"PENDING", "PAID", "OVERDUE"}),
       status \in {"PENDING", "PAID", "OVERDUE"} :
        LET r == update_payment_status(State, x[1], x[2], status)
        IN (/\ status # payments[x[2]].status
            /\ <<payments[x[2]].status, status>> \notin TableTransitions)
           => r.code # 200 /\ r.db = State

\* C14: every CREDIT payment has status PAID, and no status update, by any
\* caller and to any status, changes the status of a CREDIT.
C14_CreditsStayPaid ==
    /\ \A p \in DOMAIN payments :
        payments[p].payment_type = "CREDIT" => payments[p].status = "PAID"
    /\ \A user_id \in tokens, p \in DOMAIN payments, status \in Statuses :
        payments[p].payment_type = "CREDIT" =>
            update_payment_status(State, user_id, p, status).db.payments[p].status
                = payments[p].status

\* C15: the paid_date of a payment is set exactly when its status is PAID.
C15_PaidDateIffPaid ==
    \A p \in DOMAIN payments :
        payments[p].paid_date # NULL <=> payments[p].status = "PAID"

\* the three values of the status enum
StatusEnum == {"PENDING", "PAID", "OVERDUE"}

\* the callers who are members (of either role) of the group of payment p
CallersOf(p) ==
    {u \in tokens : <<payments[p].group_id, u>> \in DOMAIN group_members}

\* C16: a status update of a payment of the caller's group to a status that
\* is none of PENDING, PAID, OVERDUE is answered 400, whoever the caller is,
\* and leaves the payment and every balance as they were.
C16_InvalidStatusRejected ==
    \A p \in DOMAIN payments, status \in Statuses :
        \A user_id \in CallersOf(p) :
            LET r == update_payment_status(State, user_id, p, status)
            IN status \notin StatusEnum => r.code = 400 /\ r.db = State

\* C16 as the code has it: the permission check comes first, so the update
\* to an invalid status is answered 400 to an admin of the group and 403 to
\* any other member of it; in both cases nothing is written.
C16_InvalidStatusByRole ==
    \A p \in DOMAIN payments, status \in Statuses :
        \A user_id \in CallersOf(p) :
            LET r == update_payment_status(State, user_id, p, status)
            IN status \notin StatusEnum =>
                /\ r.code = (IF user_id \in Admins THEN 400 ELSE 403)
                /\ r.db = State

\* C16 witness: a settled charge of a member; the admin of the group and the
\* member, its owner, both ask for the status VOID.
C16_Witness ==
    \E p \in DOMAIN payments :
        \E a \in CallersOf(p) \cap Admins, m \in CallersOf(p) \ Admins :
            /\ payments[p].user_id = m
            /\ payments[p].status = "PAID"
            /\ payments[p].paid_date # NULL
            /\ update_payment_status(State, a, p, "VOID").code = 400
            /\ update_payment_status(State, m, p, "VOID").code = 403

\* a bulk result r for the list user_ids in group g: answered 200, the rows
\* there were are untouched, the response lists exactly the new rows, every
\* new row is a payment of g of the kind and amount asked, and each user has
\* one new row per listing when a member of g and none otherwise
BulkAsSpecified(r, g, user_ids, amount, payment_type) ==
    LET new == DOMAIN r.db.payments \ DOMAIN payments
    IN /\ r.code = 200
       /\ r.created = new
       /\ \A p \in DOMAIN payments :
            p \in DOMAIN r.db.payments /\ r.db.payments[p] = payments[p]
       /\ \A p \in new :
            /\ r.db.payments[p].group_id = g
            /\ r.db.payments[p].payment_type = payment_type
            /\ r.db.payments[p].amount = amount
       /\ \A u \in UserIds :
            Cardinality({p \in new : r.db.payments[p].user_id = u})
                = (IF <<g, u>> \in DOMAIN group_members
                   THEN Occurrences(user_ids, u) ELSE 0)

\* C17: bulkCharge and bulkCredit with a non-empty list create one payment
\* for each listed id that is a member of the caller's group and none for any
\* other id, return exactly the payments created, and answer 200 whether or
\* not ids were skipped.
C17_BulkSkipsOutsiders ==
    \A user_id \in Admins, user_ids \in UserIdLists \ {<<>>},
       amount \in RequestAmounts :
        /\ BulkAsSpecified(create_bulk_charge(State, user_id, user_ids, amount),
               GroupOf(user_id), user_ids, amount, "CHARGE")
        /\ BulkAsSpecified(create_bulk_credit(State, user_id, user_ids, amount),
               GroupOf(user_id), user_ids, amount, "CREDIT")

\* C17 witness: with a payment already stored, an admin bulk-charges a member
\* of the group and the admin of the other group: one payment is created,
\* for the member, and the request is answered 200.
C17_Witness ==
    \E user_id \in Admins, m \in UserIds, o \in UserIds, amount \in Amounts :
        LET g == GroupOf(user_id)
            r == create_bulk_charge(State, user_id, <<o, m>>, amount)
        IN /\ DOMAIN payments # {}
           /\ <<g, m>> \in DOMAIN group_members
           /\ m # user_id
           /\ <<g, o>> \notin DOMAIN group_members
           /\ r.code = 200
           /\ Cardinality(r.created) = 1
           /\ \A p \in r.created : r.db.payments[p].user_id = m

\* the stored tables, and the tables one bulk request of an admin later (up
\* to MaxBulk more payment rows)
OneBulkLater ==
    {State}
    \cup {create_bulk_charge(State, a, l, amount).db :
            a \in Admins, l \in UserIdLists, amount \in Amounts}
    \cup {create_bulk_credit(State, a, l, amount).db :
            a \in Admins, l \in UserIdLists, amount \in Amounts}

\* the charges of group g in db whose status is in statuses
GroupCharges(db, g, statuses) ==
    {p \in DOMAIN db.payments :
        /\ db.payments[p].group_id = g
        /\ db.payments[p].payment_type = "CHARGE"
        /\ db.payments[p].status \in statuses}

\* the payment rows of group g in db
GroupRows(db, g) == {p \in DOMAIN db.payments : db.payments[p].group_id = g}

\* C18: the statistics of a group are owed = the sum of the amounts of its
\* PENDING and OVERDUE charges, collected = the sum of the amounts of its PAID
\* charges, count = the number of its payment rows, credits included in the
\* count and in neither sum.
C18_Statistics ==
    \A db \in OneBulkLater, user_id \in Admins :
        LET g == GroupOf(user_id)
            r == get_payment_statistics(db, user_id)
        IN /\ r.code = 200
           /\ r.total_money_owed
                = SumAmounts(db.payments, GroupCharges(db, g, {"PENDING", "OVERDUE"}))
           /\ r.total_money_collected
                = SumAmounts(db.payments, GroupCharges(db, g, {"PAID"}))
           /\ r.total_payments_count = Cardinality(GroupRows(db, g))

\* C18 witness: a group with a settled charge, whose members are then
\* bulk-credited: the statistics show the charge as collected, nothing owed,
\* and count the credits; the same group bulk-charged instead owes the
\* charges.
C18_Witness ==
    \E user_id \in Admins, p \in DOMAIN payments, amount \in Amounts :
        LET g == GroupOf(user_id)
            l == <<1, 2>>
            c == get_payment_statistics(
                     create_bulk_credit(State, user_id, l, amount).db, user_id)
            d == get_payment_statistics(
                     create_bulk_charge(State, user_id, l, amount).db, user_id)
        IN /\ payments[p].group_id = g
           /\ payments[p].payment_type = "CHARGE"
           /\ payments[p].status = "PAID"
           /\ c.total_payments_count = 3
           /\ c.total_money_owed = 0
           /\ c.total_money_collected = payments[p].amount
           /\ d.total_payments_count = 3
           /\ d.total_money_owed = 2 * amount
           /\ d.total_money_collected = payments[p].amount

\* the stored tables, and the tables one bulk charge of an admin later
OneBulkChargeLater ==
    {State}
    \cup {create_bulk_charge(State, a, l, CHOOSE amount \in Amounts : TRUE).db :
            a \in Admins, l \in UserIdLists}

\* C19: the list route returns only payments of the caller's group; to an
\* admin all of them (those the filters select, when filters are given); to
\* a caller who is not an admin the caller's own payments in the group (of
\* the status asked for, when one is), whatever user filter was supplied.
C19_ListVisibility ==
    \A db \in OneBulkChargeLater, user_id \in tokens,
       user_id_filter \in {NoUserFilter} \cup UserIds,
       status \in {NoStatusFilter} \cup Statuses :
        LET g == GroupOf(user_id)
            r == get_payments(db, user_id, user_id_filter, status)
            asked == {p \in DOMAIN db.payments :
                        status # NoStatusFilter => db.payments[p].status = status}
        IN /\ r.code = 200
           /\ r.payments \subseteq GroupRows(db, g)
           /\ (user_id \in Admins /\ user_id_filter = NoUserFilter)
                => r.payments = GroupRows(db, g) \cap asked
           /\ user_id \notin Admins
                => r.payments
                    = {p \in GroupRows(db, g) : db.payments[p].user_id = user_id}
                        \cap asked

\* C19 witness: both groups hold payments, the caller's group holds payments
\* of the admin and of a member; the member, asking for the admin's payments,
\* is shown the member's own payment only, and the admin is shown both.
C19_Witness ==
    \E a \in Admins, m \in NonAdmins, amount \in Amounts :
        LET db == create_bulk_charge(State, a, <<a, m>>, amount).db
            g == GroupOf(a)
            r == get_payments(db, m, a, NoStatusFilter)
        IN /\ GroupOf(m) = g
           /\ \E p \in DOMAIN payments : payments[p].group_id # g
           /\ Cardinality(get_payments(db, a, NoUserFilter, NoStatusFilter).payments) = 2
           /\ Cardinality(r.payments) = 1
           /\ \A p \in r.payments : db.payments[p].user_id = m

\* a request was refused with code and wrote nothing
Refused(r, code) == r.code = code /\ r.db = State /\ r.created = {}

\* C20: createPayment by an admin is answered 404 when the target is not a
\* member of the admin's group and 400 when the kind is neither CHARGE nor
\* CREDIT (one of the two when both are the case); no payment row is created
\* and no balance changes.
C20_CreateRejections ==
    \A user_id \in Admins, target \in UserIds \cup {MaxUsers + 1},
       amount \in RequestAmounts, payment_type \in PaymentTypes :
        LET r == create_payment(State, user_id, target, amount, payment_type)
            outsider == <<GroupOf(user_id), target>> \notin DOMAIN group_members
            badkind == payment_type \notin {"CHARGE", "CREDIT"}
        IN /\ (outsider /\ ~badkind) => Refused(r, 404)
           /\ (badkind /\ ~outsider) => Refused(r, 400)
           /\ (badkind /\ outsider) => Refused(r, 400) \/ Refused(r, 404)
           /\ (~badkind /\ ~outsider) => r.code = 200

\* C20 witness: an admin whose group already has a payment and a member who
\* owes asks to charge the admin of the other group (404) and to record a
\* REFUND for a member of the group (400).
C20_Witness ==
    \E user_id \in Admins, m \in NonAdmins, o \in Admins, amount \in Amounts :
        LET g == GroupOf(user_id)
        IN /\ GroupOf(m) = g
           /\ GroupOf(o) # g
           /\ group_members[<<g, m>>].balance > 0
           /\ \E p \in DOMAIN payments : payments[p].group_id = g
           /\ Refused(create_payment(State, user_id, o, amount, "CHARGE"), 404)
           /\ Refused(create_payment(State, user_id, m, amount, "REFUND"), 400)

\* C21: every stored payment has an amount above 0, and createPayment,
\* bulkCharge and bulkCredit with an amount of 0 or less are rejected as
\* invalid input (400) and change nothing.
C21_PositiveAmounts ==
    /\ \A p \in DOMAIN payments : payments[p].amount > 0
    /\ \A user_id \in Admins, target \in UserIds, amount \in RequestAmounts :
        amount <= 0 =>
            /\ \A payment_type \in {"CHARGE", "CREDIT"} :
                Refused(create_payment(State, user_id, target, amount, payment_type), 400)
            /\ Refused(create_bulk_charge(State, user_id, <<target>>, amount), 400)
            /\ Refused(create_bulk_credit(State, user_id, <<target>>, amount), 400)

\* C22: to read, to change the status of, or to delete a payment of a group
\* other than the caller's is answered NotFound (404) and leaves the payment
\* and every balance as they were.
C22_CrossGroupNotFound ==
    \A user_id \in tokens, p \in DOMAIN payments :
        (MembershipRows(State, user_id) # {} /\ payments[p].group_id # GroupOf(user_id))
        => /\ get_payment(State, user_id, p).code = 404
           /\ \A status \in Statuses :
                Refused(update_payment_status(State, user_id, p, status), 404)
           /\ user_id \in Admins => Refused(delete_payment(State, user_id, p), 404)

\* the email no user has yet, and the ids signup gives the next user and the
\* next group
NewEmail == Cardinality(users) + 1
NextUserId == Cardinality(users) + 1
NextGroupId == Cardinality(DOMAIN groups) + 1

\* the groups that hold invite code c
HoldersOf(c) == {g \in DOMAIN groups : groups[g].invite_code = c}

\* C23: signup with an invite code that matches no group fails with 404 and
\* leaves every table as it was: no user row, no membership row.
C23_BadCodeWritesNothing ==
    \A code \in Codes :
        HoldersOf(code) = {} =>
            \A first \in GroupIds :
                LET r == signup(State, NewEmail, "inviteCode", code, first)
                IN r.code = 404 /\ r.db = State

\* C24: a signup with a group name that succeeds leaves the new user a member
\* of the new group with role admin and balance 0; a signup with the invite
\* code of a group succeeds and leaves the new user a member of that group
\* with role member and balance 0.
C24_SignupMembership ==
    \A code \in Codes, first \in GroupIds :
        LET c == signup(State, NewEmail, "groupName", code, first)
            j == signup(State, NewEmail, "inviteCode", code, first)
        IN /\ HoldersOf(code) = {} => c.code = 200
           /\ c.code = 200 =>
                /\ NextGroupId \in DOMAIN c.db.groups
                /\ MembershipRows(c.db, NextUserId) = {<<NextGroupId, NextUserId>>}
                /\ c.db.group_members[<<NextGroupId, NextUserId>>]
                     = [role |-> "admin", balance |-> 0]
           /\ HoldersOf(code) # {} =>
                /\ j.code = 200
                /\ \E g \in HoldersOf(code) :
                    /\ MembershipRows(j.db, NextUserId) = {<<g, NextUserId>>}
                    /\ j.db.group_members[<<g, NextUserId>>]
                         = [role |-> "member", balance |-> 0]
                /\ \A k \in DOMAIN group_members :
                    j.db.group_members[k] = group_members[k]

\* C24 witness: a group of two, one of them a member who joined with its
\* code; the next user can found a second group or join this one.
C24_Witness ==
    \E code \in Codes, other \in Codes :
        /\ HoldersOf(code) # {}
        /\ HoldersOf(other) = {}
        /\ \E g \in HoldersOf(code) :
            /\ Cardinality(MembersOf(group_members, g)) = 2
            /\ \E k \in MembersOf(group_members, g) :
                group_members[k].role = "member"
        /\ signup(State, NewEmail, "groupName", other, 1).code = 200
        /\ signup(State, NewEmail, "inviteCode", code, 1).code = 200

\* C25: an admin's regenerateInviteCode succeeds and replaces the code of
\* the admin's group; after it a signup with the old code fails with 404 and
\* a signup with the new code joins the group.
C25_RegenerateReplacesCode ==
    \A user_id \in Admins :
        LET g == GroupOf(user_id)
            old == groups[g].invite_code
            r == regenerate_invite_code(State, user_id)
            new == r.db.groups[g].invite_code
            j == signup(r.db, NewEmail, "inviteCode", new, g)
        IN /\ r.code = 200
           /\ new # old
           /\ signup(r.db, NewEmail, "inviteCode", old, g).code = 404
           /\ j.code = 200
           /\ <<g, NextUserId>> \in DOMAIN j.db.group_members

\* C26: no two groups hold the same invite code, whatever codes the
\* generator draws.
C26_UniqueInviteCodes ==
    \A g \in DOMAIN groups, h \in DOMAIN groups :
        (g # h /\ groups[g].invite_code # NULL)
            => groups[g].invite_code # groups[h].invite_code

\* gm without the row k
WithoutRow(gm, k) == [j \in DOMAIN gm \ {k} |-> gm[j]]

\* C27: a caller who is not an admin can remove the caller's own membership
\* and no other: a removal of anybody else is refused with 403 and leaves
\* the memberships as they were; an admin can remove every member of the
\* admin's group but the group's last admin.
C27_RemoveSelfOrAdmin ==
    \A k \in DOMAIN group_members, member_id \in UserIds :
        LET g == k[1]
            user_id == k[2]
            r == remove_member(State, user_id, member_id)
            t == <<g, member_id>>
            last == /\ t \in DOMAIN group_members
                    /\ group_members[t].role = "admin"
                    /\ Cardinality(AdminsOf(group_members, g)) = 1
        IN IF group_members[k].role # "admin"
           THEN IF member_id = user_id
                THEN /\ r.code = 200
                     /\ r.db.group_members = WithoutRow(group_members, k)
                ELSE r.code = 403 /\ r.db = State
           ELSE (t \in DOMAIN group_members /\ ~last) =>
                    /\ r.code = 200
                    /\ r.db.group_members = WithoutRow(group_members, t)

\* C27 witness: a group of an admin, a second admin and a member: the
\* member can leave, cannot remove an admin, and can be removed by one; an
\* admin can remove the other.
C27_Witness ==
    \E a \in DOMAIN group_members, b \in DOMAIN group_members,
       m \in DOMAIN group_members :
        /\ a[1] = m[1] /\ b[1] = m[1] /\ a # b
        /\ group_members[a].role = "admin"
        /\ group_members[b].role = "admin"
        /\ group_members[m].role = "member"
        /\ remove_member(State, m[2], m[2]).code = 200
        /\ remove_member(State, m[2], a[2]).code = 403
        /\ remove_member(State, a[2], m[2]).code = 200
        /\ remove_member(State, a[2], b[2]).code = 200

\* the fields of a payment row that are fixed at its creation
Fixed(row) ==
    [group_id |-> row.group_id, user_id |-> row.user_id, amount |-> row.amount,
     payment_type |-> row.payment_type]

\* C28: a status update leaves the payment under its id with the group, the
\* owner, the amount and the kind it was created with, and leaves every other
\* payment row as it was; recording a payment changes no row that exists.
C28_FixedFields ==
    /\ \A user_id \in tokens, p \in DOMAIN payments, status \in Statuses :
        LET r == update_payment_status(State, user_id, p, status)
        IN /\ DOMAIN r.db.payments = DOMAIN payments
           /\ Fixed(r.db.payments[p]) = Fixed(payments[p])
           /\ \A q \in DOMAIN payments \ {p} : r.db.payments[q] = payments[q]
    /\ \A user_id \in tokens, target \in UserIds, amount \in RequestAmounts,
          payment_type \in PaymentTypes :
        LET r == create_payment(State, user_id, target, amount, payment_type)
        IN \A q \in DOMAIN payments :
            q \in DOMAIN r.db.payments /\ r.db.payments[q] = payments[q]

\* C28 witness: a settled charge is re-opened by the admin: status and
\* paid_date change, the fixed fields do not.
C28_Witness ==
    \E x \in AdminCharges({"PAID"}) :
        LET r == update_payment_status(State, x[1], x[2], "PENDING")
        IN /\ r.code = 200
           /\ r.db.payments[x[2]].status # payments[x[2]].status
           /\ r.db.payments[x[2]].paid_date # payments[x[2]].paid_date
           /\ Fixed(r.db.payments[x[2]]) = Fixed(payments[x[2]])

\* C29: when no request is in flight, every group that has a member has an
\* admin, whatever the order in which the reads and the writes of concurrent
\* role changes and removals were served.
C29_ConcurrentAdminFloor ==
    inflight = {} =>
        \A g \in DOMAIN groups :
            MembersOf(group_members, g) # {} => AdminsOf(group_members, g) # {}

\* C30: no state shows the status a status update wrote together with the
\* balance its owner had before the update, where the update has a balance
\* adjustment to make.
C30_StatusBalanceAtomic ==
    \A req \in inflight :
        req.op = "update_member_balance" =>
            ~ /\ payments[req.payment_id].status = req.status
              /\ get_user_membership(State, req.user_id).balance = req.balance

\* the sum of the balance adjustments the requests in reqs have still to make
RECURSIVE SumDeltas(_)
SumDeltas(reqs) ==
    IF reqs = {} THEN 0
    ELSE LET r == CHOOSE x \in reqs : TRUE
         IN r.amount + SumDeltas(reqs \ {r})

\* the balance adjustments in flight for the member row k
PendingFor(k) ==
    {req \in inflight : req.op = "update_member_balance"
                         /\ <<req.group_id, req.user_id>> = k}

\* charges minus credits among the payment rows of the member row k
NetRecorded(k) ==
    SumAmounts(payments, {p \in DOMAIN payments :
        <<payments[p].group_id, payments[p].user_id>> = k
        /\ payments[p].payment_type = "CHARGE"})
    - SumAmounts(payments, {p \in DOMAIN payments :
        <<payments[p].group_id, payments[p].user_id>> = k
        /\ payments[p].payment_type = "CREDIT"})

\* C31: while concurrent POST /payments/ are served, a member's balance plus
\* the adjustments still in flight for it equals charges minus credits of the
\* rows recorded for it; once the requests have completed the balance differs
\* from its initial 0 by the sum of their deltas.
C31_NoLostUpdate ==
    \A k \in DOMAIN group_members :
        group_members[k].balance + SumDeltas(PendingFor(k)) = NetRecorded(k)

\* C31 witness: two payments are recorded for one member, one request has
\* written its balance update and the other, which began before that write,
\* has still to make its own.
C31_Witness ==
    \E k \in DOMAIN group_members :
        /\ Cardinality({p \in DOMAIN payments :
              <<payments[p].group_id, payments[p].user_id>> = k}) = 2
        /\ \E req \in PendingFor(k) :
              /\ PendingFor(k) = {req}
              /\ req.balance # group_members[k].balance

\* C32: once the concurrent requests that mark charges PAID have completed,
\* every member's balance is the sum of the charges still outstanding: each
\* settled charge has lowered its owner's balance by its amount once.
C32_SettledOnce ==
    inflight = {} =>
        \A k \in DOMAIN group_members :
            group_members[k].balance = Recomputed(payments, k)

\* C33: once every request has completed or stopped, every member's balance
\* is what the payment rows give: no row is recorded whose balance adjustment
\* was not made.
C33_StoppedRequestKeepsLedger ==
    inflight = {} =>
        \A k \in DOMAIN group_members :
            group_members[k].balance = NetRecorded(k)

\* C34: once the concurrent deletions of outstanding charges have completed,
\* every member's balance is the sum of the charges that remain: each deleted
\* charge has lowered its owner's balance by its amount once.
C34_DeletedOnce ==
    inflight = {} =>
        \A k \in DOMAIN group_members :
            group_members[k].balance =
                SumAmounts(payments, PaymentsOf(payments, k, "CHARGE", {"PENDING"}))

\* C35: a status update that asks for the status the payment has leaves every
\* balance as it was, and a status update made a second and a third time by
\* the same caller leaves the balances the first one left.
C35_RepeatedStatusUpdate ==
    \A user_id \in tokens, p \in DOMAIN payments, status \in Statuses :
        LET r1 == update_payment_status(State, user_id, p, status)
            r2 == update_payment_status(r1.db, user_id, p, status)
            r3 == update_payment_status(r2.db, user_id, p, status)
        IN /\ payments[p].status = status =>
                r1.db.group_members = group_members
           /\ r2.db.group_members = r1.db.group_members
           /\ r3.db.group_members = r1.db.group_members

\* C35 witness: a charge is PAID and the admin marks it PAID again; the
\* route accepts the request, writes the row and leaves the balances.
C35_Witness ==
    \E x \in AdminCharges({"PAID"}) :
        LET r == update_payment_status(State, x[1], x[2], "PAID")
        IN /\ r.code = 200
           /\ r.db.payments[x[2]].status = "PAID"
           /\ r.db.group_members = group_members

RowsOf(gm, u) == {k \in DOMAIN gm : k[2] = u}

\* C37: every user has at most one membership row; a signup adds at most one
\* row, for the user it has just created, and role changes, removals,
\* invite-code requests and recorded payments add none.
C37_OneMembership ==
    /\ \A u \in UserIds : Cardinality(RowsOf(group_members, u)) <= 1
    /\ \A email \in 1..NewEmail, kind \in SignupKinds, code \in Codes,
          first \in GroupIds :
        LET r == signup(State, email, kind, code, first)
            added == DOMAIN r.db.group_members \ DOMAIN group_members
        IN /\ Cardinality(added) <= 1
           /\ \A k \in added : k[2] \notin users /\ k[2] \in r.db.users
           /\ \A k \in DOMAIN group_members : k \in DOMAIN r.db.group_members
    /\ \A u \in tokens, m \in UserIds :
        /\ \A role \in Roles :
              DOMAIN update_member_role(State, u, m, role).db.group_members
                  = DOMAIN group_members
        /\ DOMAIN remove_member(State, u, m).db.group_members
              \subseteq DOMAIN group_members
        /\ DOMAIN regenerate_invite_code(State, u).db.group_members
              = DOMAIN group_members
        /\ \A amount \in Amounts, payment_type \in PaymentTypes :
              DOMAIN create_payment(State, u, m, amount, payment_type).db.group_members
                  = DOMAIN group_members

\* C37 witness: three users have signed up, into two groups, and each holds
\* one membership row.
C37_Witness ==
    /\ Cardinality(tokens) = 3
    /\ Cardinality(DOMAIN groups) = 2
    /\ \A u \in tokens : Cardinality(RowsOf(group_members, u)) = 1
    /\ \E g \in DOMAIN groups : Cardinality(MembersOf(group_members, g)) = 2

\* C38: an accepted removal deletes the target's membership row and nothing
\* else: every other membership row and every payment row, the removed
\* member's included, stay as they were, and every admin who keeps the role
\* reads the same statistics after the removal as before it.
C38_RemovalKeepsPayments ==
    \A user_id \in tokens, member_id \in UserIds :
        LET r == remove_member(State, user_id, member_id)
            k == <<GroupOf(user_id), member_id>>
        IN r.code = 200 =>
            /\ r.db.payments = payments
            /\ r.db.group_members = WithoutRow(group_members, k)
            /\ \A a \in Admins \ {member_id} :
                  get_payment_statistics(r.db, a) = get_payment_statistics(State, a)

\* C38 witness: a member who owns a payment row is removed by the admin, and
\* the admin's statistics still count the row.
C38_Witness ==
    \E user_id \in Admins, p \in DOMAIN payments :
        LET r == remove_member(State, user_id, payments[p].user_id)
        IN /\ payments[p].group_id = GroupOf(user_id)
           /\ payments[p].user_id # user_id
           /\ r.code = 200
           /\ MembershipRows(r.db, payments[p].user_id) = {}
           /\ get_payment_statistics(r.db, user_id).code = 200
           /\ get_payment_statistics(r.db, user_id).total_payments_count >= 1

\* the membership rows and the payment rows of group g
GroupState(db, g) ==
    [members |-> [k \in {j \in DOMAIN db.group_members : j[1] = g} |->
                    db.group_members[k]],
     payments |-> [p \in {q \in DOMAIN db.payments :
                            db.payments[q].group_id = g} |-> db.payments[p]]]

\* the groups the caller is no member of
OtherGroups(user_id) ==
    {g \in DOMAIN groups : <<g, user_id>> \notin DOMAIN group_members}

\* C39: whatever a member of one group asks of update_member_role,
\* remove_member, create_payment, create_bulk_charge, create_bulk_credit,
\* update_payment_status and delete_payment, the membership rows (roles and
\* balances) and the payment rows of every other group stay as they were.
C39_OtherGroupsUntouched ==
    \A user_id \in tokens : \A g \in OtherGroups(user_id) :
        LET Same(r) == GroupState(r.db, g) = GroupState(State, g) IN
        /\ \A member_id \in UserIds :
              /\ Same(remove_member(State, user_id, member_id))
              /\ \A role \in Roles :
                    Same(update_member_role(State, user_id, member_id, role))
              /\ \A amount \in RequestAmounts, payment_type \in PaymentTypes :
                    Same(create_payment(State, user_id, member_id, amount,
                                        payment_type))
        /\ \A user_ids \in UserIdLists, amount \in Amounts :
              /\ Same(create_bulk_charge(State, user_id, user_ids, amount))
              /\ Same(create_bulk_credit(State, user_id, user_ids, amount))
        /\ \A p \in PaymentIds :
              /\ Same(delete_payment(State, user_id, p))
              /\ \A status \in Statuses :
                    Same(update_payment_status(State, user_id, p, status))

\* C39 witness: another group holds a payment row; an admin of the first
\* group asks to settle it and to delete it and is refused, and names the
\* other group's member in a role change and in a charge and is refused.
C39_Witness ==
    \E user_id \in Admins, p \in DOMAIN payments :
        LET g == payments[p].group_id
            owner == payments[p].user_id
        IN /\ g \in OtherGroups(user_id)
           /\ <<g, owner>> \in DOMAIN group_members
           /\ group_members[<<g, owner>>].balance # 0
           /\ update_payment_status(State, user_id, p, "PAID").code = 403
           /\ delete_payment(State, user_id, p).code = 403
           /\ update_member_role(State, user_id, owner, "member").code = 404
           /\ create_payment(State, user_id, owner, 1, "CHARGE").code = 404

====
